---- MODULE Spec2Model ----
(***************************************************************************)
(* Verification model of the SilverSpace / VerticalX movie recommender.    *)
(*                                                                         *)
(* The model covers the module-level load of the catalog and of the        *)
(* similarity matrix (src/main.py 767-783, src/app.py 45-48), the lookup   *)
(* recommend_movies (src/main.py 232-284) with its poster fetches, and the *)
(* older lookup recommend (src/app.py 23-34).                              *)
(*                                                                         *)
(* Python lists and data-frame rows are TLA+ sequences: the element with   *)
(* Python index i is element i + 1 of the sequence.  Similarity scores are *)
(* integers (tenths of the floating-point score).                          *)
(***************************************************************************)
EXTENDS Integers, Sequences, FiniteSets, TLC

\* ------------------------------------------------------------------------
\* Bounds of the model
\* ------------------------------------------------------------------------

\* Largest catalog drawn by Init.
MaxN == 7

\* Scores of the generated matrices are drawn from 0 .. MaxScore.
MaxScore == 2

\* Largest number of loads of the pickles on record.
MaxLoads == 2

\* ------------------------------------------------------------------------
\* Program constants
\* ------------------------------------------------------------------------

\* The slice [1:6] applied to the sorted row.
SliceFrom == 1

SliceTo == 6

\* The columns of recommended movies on the page.
TopFive == 5

\* ------------------------------------------------------------------------
\* Input data: the pickled catalog and similarity matrix in the blob store
\* ------------------------------------------------------------------------

TitleNames == <<"A", "B", "C", "D", "E", "F", "G", "H", "I", "J">>

\* A title that no catalog item carries.
AbsentTitle == "Z"

Min(a, b) == IF a <= b THEN a ELSE b

\* The TMDb id of catalog item i (Python index).
MovieIdOf(i) == 100 + i

\* A catalog of n items.  Item n - 1 carries the title of item dupOf; with
\* dupOf = n - 1 all titles are distinct.
Catalog(n, dupOf) ==
    [k \in 1..n |->
        [title    |-> TitleNames[(IF k = n THEN dupOf ELSE k - 1) + 1],
         movie_id |-> MovieIdOf(k - 1)]]

\* An m x m matrix: self on the diagonal, odd at an odd distance (c - r
\* modulo m) from the diagonal and even at an even one.
PatternMatrix(m, self, odd, even) ==
    [r \in 1..m |->
        [c \in 1..m |->
            IF r = c THEN self
            ELSE IF (((c - r) + m) % m) % 2 = 1 THEN odd ELSE even]]

\* The similarity row of the specification's concrete scenario, in tenths:
\* [1.0, 0.9, 0.9, 0.5, 0.2, 0.1].
ScenarioRow == <<10, 9, 9, 5, 2, 1>>

\* The 6 x 6 matrix whose row for item i is ScenarioRow rotated by i.
ScenarioMatrix ==
    [r \in 1..6 |-> [c \in 1..6 |-> ScenarioRow[(((c - r) + 6) % 6) + 1]]]

Scores == 0..MaxScore

\* The matrices of dimension m the loader may deliver.
Matrices(m) ==
    {PatternMatrix(m, self, odd, even) :
        self \in Scores, odd \in Scores, even \in Scores}
        \cup (IF m = 6 THEN {ScenarioMatrix} ELSE {})

\* The contents of the blob store: a catalog with distinct titles and a
\* matrix of its dimension, or of a dimension off by one, or a catalog with
\* one duplicated title and a matrix of its dimension.
Blobs ==
    UNION {
        {[movies |-> Catalog(n, n - 1), similarity |-> s] :
            s \in Matrices(n) \cup Matrices(n - 1) \cup Matrices(n + 1)}
        \cup
        {[movies |-> Catalog(n, d), similarity |-> s] :
            d \in 0..(n - 2), s \in Matrices(n)}
        : n \in 1..MaxN}

QueryTitles == {TitleNames[k] : k \in 1..MaxN} \cup {AbsentTitle}

\* What the TMDb request of one poster fetch may come to.
PosterResponses == {"ok", "no_poster_path", "request_error"}

\* ------------------------------------------------------------------------
\* State
\* ------------------------------------------------------------------------

VARIABLES
    blob,        \* the pickles in the blob store (environment)
    movies,      \* module global movies: [bound, rows]
    similarity,  \* module global similarity: [bound, rows]
    pc,          \* position of the script run
    displayed,   \* messages on the page
    requests,    \* poster requests sent in this run (movie ids)
    call,        \* the last lookup call: arguments, locals and outcome
    run,         \* the page of this run: inputs, lookups made, mail call, images
    smtp,        \* the mail server in this run: sessions left open, mails accepted
    loads,       \* how many times the pickles were loaded in the runs on record
    sessions     \* the lookups of the users served at the same time

vars == <<blob, movies, similarity, pc, displayed, requests, call,
          run, smtp, loads, sessions>>

Unbound == [bound |-> FALSE, rows |-> <<>>]

Bound(rows) == [bound |-> TRUE, rows |-> rows]

NoCall ==
    [fn |-> "none", movie |-> "", kind |-> "none", error |-> "",
     movie_index |-> -1, movies_list |-> <<>>,
     titles |-> <<>>, posters |-> <<>>, shown |-> <<>>, sent |-> <<>>]

\* No mail function was called: the record of a call of a send function has
\* its name (fn), its outcome (kind, error) and the steps it took.
NoSend ==
    [fn |-> "none", kind |-> "none", error |-> "", steps |-> <<>>,
     open |-> 0, mails |-> <<>>]

\* The page of a run before the page is chosen: the page, the movie of the
\* select box, the number of lookup calls made, the value of the checkbox
\* and the uploaded files of the bug report page, the call of the send
\* function, and the images shown in the five columns.
NoRun ==
    [page |-> "none", selected |-> "", lookups |-> 0, checkbox |-> FALSE,
     uploads |-> <<>>, send |-> NoSend, images |-> <<>>]

\* The mail server in a run that opened no session and sent no mail.
NoMail == [open |-> 0, mails |-> <<>>]

\* The users whose lookups run at the same time.
Users == {"u1", "u2"}

\* The frame of a lookup that is not running.
Idle ==
    [pc |-> "idle", movie |-> "", found |-> FALSE, movie_index |-> -1,
     movies_list |-> <<>>, titles |-> <<>>, posters |-> <<>>,
     shown |-> <<>>, sent |-> <<>>, met |-> <<>>, error |-> ""]

\* ------------------------------------------------------------------------
\* Helpers of the lookup
\* ------------------------------------------------------------------------

\* The Python indices of the catalog rows whose title equals movie:
\* movies[movies["title"] == movie].index
MatchingIndex(rows, movie) ==
    {k - 1 : k \in {j \in 1..Len(rows) : rows[j].title = movie}}

SetMin(S) == CHOOSE x \in S : \A y \in S : x <= y

SetMax(S) == CHOOSE x \in S : \A y \in S : x >= y

\* The last matching row instead of the first.
LastIndex(S) == SetMax(S)

\* .index[0] of a non-empty selection: the first matching row.
FirstIndex(S) == SetMin(S)

\* list(enumerate(distances)): pairs <<Python index, score>>.
Enumerate(distances) == [k \in 1..Len(distances) |-> <<k - 1, distances[k]>>]

\* InsertDesc sorting in ascending order.
InsertAsc(s, x) ==
    LET ahead == {k \in 1..Len(s) : s[k][2] <= x[2]}
        n     == IF ahead = {} THEN 0 ELSE CHOOSE a \in ahead : \A b \in ahead : a >= b
    IN  SubSeq(s, 1, n) \o <<x>> \o SubSeq(s, n + 1, Len(s))

\* InsertDesc that puts x ahead of the elements of equal key.
InsertDescTiesReversed(s, x) ==
    LET ahead == {k \in 1..Len(s) : s[k][2] > x[2]}
        n     == IF ahead = {} THEN 0 ELSE CHOOSE a \in ahead : \A b \in ahead : a >= b
    IN  SubSeq(s, 1, n) \o <<x>> \o SubSeq(s, n + 1, Len(s))

\* One step of the stable descending sort: x goes behind every element whose
\* key is greater than or equal to its own.
InsertDesc(s, x) ==
    LET ahead == {k \in 1..Len(s) : s[k][2] >= x[2]}
        n     == IF ahead = {} THEN 0 ELSE SetMax(ahead)
    IN  SubSeq(s, 1, n) \o <<x>> \o SubSeq(s, n + 1, Len(s))

RECURSIVE SortFrom(_, _, _)
SortFrom(pairs, k, acc) ==
    IF k > Len(pairs) THEN acc
    ELSE SortFrom(pairs, k + 1, InsertDesc(acc, pairs[k]))

\* sorted(pairs, reverse=True, key=lambda x: x[1]): descending by score,
\* elements of equal score in their original order.
SortedReverse(pairs) == SortFrom(pairs, 1, <<>>)

\* The slice that keeps the first element: s[0:hi - lo].
SliceFromStart(s, lo, hi) == SubSeq(s, 1, Min(hi - lo, Len(s)))

\* s[lo:hi] of a Python list.
Slice(s, lo, hi) == SubSeq(s, lo + 1, Min(hi, Len(s)))

\* sorted(list(enumerate(distances)), reverse=True, key=...)[1:6]
MoviesList(distances) ==
    Slice(SortedReverse(Enumerate(distances)), SliceFrom, SliceTo)

PosterUrl(movie_id) == <<"https://image.tmdb.org/t/p/w500/", movie_id>>

\* fetch_movie_poster: the request, the JSON parse and data["poster_path"].
fetch_movie_poster(movie_id, response) ==
    IF response = "ok"
    THEN [kind |-> "return", value |-> PosterUrl(movie_id), error |-> ""]
    ELSE IF response = "no_poster_path"
    THEN [kind |-> "raise", value |-> <<>>, error |-> "KeyError"]
    ELSE [kind |-> "raise", value |-> <<>>, error |-> "RequestException"]

\* fetch_poster of app.py: the same request with the same failures.
fetch_poster(movie_id, response) ==
    IF response = "ok"
    THEN [kind |-> "return", value |-> PosterUrl(movie_id), error |-> ""]
    ELSE IF response = "no_poster_path"
    THEN [kind |-> "raise", value |-> <<>>, error |-> "KeyError"]
    ELSE [kind |-> "raise", value |-> <<>>, error |-> "RequestException"]

\* PosterLoop that goes on with the next movie after a failed poster fetch.
RECURSIVE PosterLoopContinue(_, _, _, _)
PosterLoopContinue(rows, list, responses, acc) ==
    LET k == Len(acc.titles) + 1 IN
    IF k > Len(list) THEN acc
    ELSE IF list[k][1] >= Len(rows)
    THEN [acc EXCEPT !.error = "IndexError"]
    ELSE LET item   == rows[list[k][1] + 1]
             poster == fetch_movie_poster(item.movie_id, responses[k])
             sent   == Append(acc.requests, item.movie_id)
         IN  IF poster.kind = "raise"
             THEN PosterLoopContinue(rows, list, responses,
                     [acc EXCEPT !.titles = Append(@, item.title),
                                 !.requests = sent,
                                 !.error = poster.error])
             ELSE PosterLoopContinue(rows, list, responses,
                     [acc EXCEPT !.titles = Append(@, item.title),
                                 !.posters = Append(@, poster.value),
                                 !.requests = sent])

\* The loop over movies_list.  responses[k] is what the k-th poster request
\* comes to.  The loop ends at the first exception: movies.iloc[i[0]] out of
\* bounds, or a failed poster fetch (after the title was appended).
RECURSIVE PosterLoop(_, _, _, _)
PosterLoop(rows, list, responses, acc) ==
    LET k == Len(acc.titles) + 1 IN
    IF k > Len(list) THEN acc
    ELSE IF list[k][1] >= Len(rows)
    THEN [acc EXCEPT !.error = "IndexError"]
    ELSE LET item   == rows[list[k][1] + 1]
             poster == fetch_movie_poster(item.movie_id, responses[k])
             sent   == Append(acc.requests, item.movie_id)
         IN  IF poster.kind = "raise"
             THEN [acc EXCEPT !.titles = Append(@, item.title),
                              !.requests = sent,
                              !.error = poster.error]
             ELSE PosterLoop(rows, list, responses,
                     [acc EXCEPT !.titles = Append(@, item.title),
                                 !.posters = Append(@, poster.value),
                                 !.requests = sent])

LoopStart == [titles |-> <<>>, posters |-> <<>>, requests |-> <<>>, error |-> ""]

\* The loop of app.py's recommend: the same steps with fetch_poster; there
\* every exception leaves the function.
RECURSIVE RecommendLoop(_, _, _, _)
RecommendLoop(rows, list, responses, acc) ==
    LET k == Len(acc.titles) + 1 IN
    IF k > Len(list) THEN acc
    ELSE IF list[k][1] >= Len(rows)
    THEN [acc EXCEPT !.error = "IndexError"]
    ELSE LET item   == rows[list[k][1] + 1]
             poster == fetch_poster(item.movie_id, responses[k])
             sent   == Append(acc.requests, item.movie_id)
         IN  IF poster.kind = "raise"
             THEN [acc EXCEPT !.titles = Append(@, item.title),
                              !.requests = sent,
                              !.error = poster.error]
             ELSE RecommendLoop(rows, list, responses,
                     [acc EXCEPT !.titles = Append(@, item.title),
                                 !.posters = Append(@, poster.value),
                                 !.requests = sent])

\* The record of a call that raised: its argument, its locals movie_index
\* (-1: unbound) and movies_list, the messages it showed (shown) and the
\* poster requests it sent (sent).
Raised(fn, movie, error, index, list, shown, sent) ==
    [fn |-> fn, movie |-> movie, kind |-> "raise", error |-> error,
     movie_index |-> index, movies_list |-> list,
     titles |-> <<>>, posters |-> <<>>, shown |-> shown, sent |-> sent]

\* The record of a call that returned titles, posters.
Returned(fn, movie, index, list, titles, posters, shown, sent) ==
    [fn |-> fn, movie |-> movie, kind |-> "return", error |-> "",
     movie_index |-> index, movies_list |-> list,
     titles |-> titles, posters |-> posters, shown |-> shown, sent |-> sent]

\* RecommendMovies with movie_index bound to 0 before the try: a title that
\* is not found is looked up with that index.
RecommendMoviesDefaultIndex(mv, sim, movie, responses) ==
    LET fn    == "recommend_movies"
        found == MatchingIndex(mv.rows, movie)
        shown == IF found = {} THEN <<"Could not find movie">> ELSE <<>>
        movie_index == IF found = {} THEN 0 ELSE FirstIndex(found)
    IN  IF ~sim.bound
        THEN Raised(fn, movie, "NameError", movie_index, <<>>, shown, <<>>)
        ELSE IF movie_index >= Len(sim.rows)
        THEN Raised(fn, movie, "IndexError", movie_index, <<>>, shown, <<>>)
        ELSE LET list == MoviesList(sim.rows[movie_index + 1])
                 loop == PosterLoop(mv.rows, list, responses, LoopStart)
             IN  Returned(fn, movie, movie_index, list,
                          loop.titles, loop.posters,
                          shown \o (IF loop.error # ""
                                    THEN <<"Could not fetch movie poster">>
                                    ELSE <<>>),
                          loop.requests)

\* recommend_movies(movie) of main.py on the globals mv, sim: what it
\* returns or raises, what it shows on the page and what it requests.
RecommendMovies(mv, sim, movie, responses) ==
    LET fn    == "recommend_movies"
        found == MatchingIndex(mv.rows, movie)
        shown == IF found = {} THEN <<"Could not find movie">> ELSE <<>>
    IN  IF ~sim.bound
        THEN Raised(fn, movie, "NameError",
                    IF found = {} THEN -1 ELSE FirstIndex(found),
                    <<>>, shown, <<>>)
        ELSE IF found = {}
        THEN Raised(fn, movie, "UnboundLocalError", -1, <<>>, shown, <<>>)
        ELSE LET movie_index == FirstIndex(found) IN
             IF movie_index >= Len(sim.rows)
             THEN Raised(fn, movie, "IndexError", movie_index, <<>>, shown, <<>>)
             ELSE LET list == MoviesList(sim.rows[movie_index + 1])
                      loop == PosterLoop(mv.rows, list, responses, LoopStart)
                  IN  Returned(fn, movie, movie_index, list,
                               loop.titles, loop.posters,
                               IF loop.error # ""
                               THEN <<"Could not fetch movie poster">>
                               ELSE <<>>,
                               loop.requests)

\* recommend(movie) of app.py on the globals mv, sim.
Recommend(mv, sim, movie, responses) ==
    LET fn    == "recommend"
        found == MatchingIndex(mv.rows, movie)
    IN  IF found = {}
        THEN Raised(fn, movie, "IndexError", -1, <<>>, <<>>, <<>>)
        ELSE LET movie_index == FirstIndex(found) IN
             IF movie_index >= Len(sim.rows)
             THEN Raised(fn, movie, "IndexError", movie_index, <<>>, <<>>, <<>>)
             ELSE LET list == MoviesList(sim.rows[movie_index + 1])
                      loop == RecommendLoop(mv.rows, list, responses, LoopStart)
                  IN  IF loop.error # ""
                      THEN Raised(fn, movie, loop.error, movie_index, list,
                                  <<>>, loop.requests)
                      ELSE Returned(fn, movie, movie_index, list,
                                    loop.titles, loop.posters, <<>>,
                                    loop.requests)

\* What the poster requests of one call come to: all succeed (failAt = 0),
\* or the failAt-th fails in the way failKind.
Responses(failAt, failKind) ==
    [k \in 1..(SliceTo - SliceFrom) |-> IF k = failAt THEN failKind ELSE "ok"]

FailKinds == PosterResponses \ {"ok"}

\* ------------------------------------------------------------------------
\* Initial state and actions
\* ------------------------------------------------------------------------

Init ==
    /\ blob \in Blobs
    /\ movies = Unbound
    /\ similarity = Unbound
    /\ pc = "start"
    /\ displayed = <<>>
    /\ requests = <<>>
    /\ call = NoCall
    /\ run = NoRun
    /\ smtp = NoMail
    /\ loads = 0
    /\ sessions = [u \in Users |-> Idle]

\* main.py, module level: load both pickles, showing an error for each load
\* that fails; pd.DataFrame(movies_dict) raises when movies_dict is unbound.
LoadModule(okMovies, okSimilarity) ==
    /\ pc = "start"
    /\ IF ~okMovies
       THEN /\ displayed' = Append(displayed, "The web app is down 1")
            /\ pc' = "crashed"
            /\ UNCHANGED <<movies, similarity>>
       ELSE /\ movies' = Bound(blob.movies)
            /\ similarity' =
                  IF okSimilarity THEN Bound(blob.similarity) ELSE Unbound
            /\ displayed' =
                  IF okSimilarity THEN displayed
                  ELSE Append(displayed, "The web app is down 2")
            /\ pc' = "loaded"
    /\ loads < MaxLoads
    /\ loads' = loads + 1
    /\ UNCHANGED <<blob, requests, call, run, smtp, sessions>>

\* app.py, module level: load the catalog, then the matrix, in two
\* statements; a failing load ends the script there, the catalog staying
\* assigned when it is the matrix that fails.
LoadApp(okMovies, okSimilarity) ==
    /\ pc = "start"
    /\ IF ~okMovies
       THEN /\ pc' = "crashed"
            /\ UNCHANGED <<movies, similarity>>
       ELSE IF ~okSimilarity
       THEN /\ movies' = Bound(blob.movies)
            /\ pc' = "crashed"
            /\ UNCHANGED similarity
       ELSE /\ movies' = Bound(blob.movies)
            /\ similarity' = Bound(blob.similarity)
            /\ pc' = "loaded_app"
    /\ loads < MaxLoads
    /\ loads' = loads + 1
    /\ UNCHANGED <<blob, displayed, requests, call, run, smtp, sessions>>

\* A call of recommend_movies(movie) by the page of main.py.
recommend_movies(movie, failAt, failKind) ==
    /\ pc = "loaded"
    /\ LET out == RecommendMovies(movies, similarity, movie,
                                  Responses(failAt, failKind))
       IN  /\ call' = out
           /\ displayed' = displayed \o out.shown
           /\ requests' = requests \o out.sent
           /\ pc' = IF out.kind = "raise" THEN "crashed" ELSE "done"
    /\ UNCHANGED <<blob, movies, similarity, run, smtp, loads, sessions>>

\* A call of recommend(movie) by the button handler of app.py.
recommend(movie, failAt, failKind) ==
    /\ pc = "loaded_app"
    /\ LET out == Recommend(movies, similarity, movie,
                            Responses(failAt, failKind))
       IN  /\ call' = out
           /\ displayed' = displayed \o out.shown
           /\ requests' = requests \o out.sent
           /\ pc' = IF out.kind = "raise" THEN "crashed" ELSE "done"
    /\ UNCHANGED <<blob, movies, similarity, run, smtp, loads, sessions>>

\* The next user interaction runs the script again, from the top; the record
\* of the run before it is dropped.
Rerun ==
    /\ pc \in {"done", "crashed"}
    /\ pc' = "start"
    /\ movies' = Unbound
    /\ similarity' = Unbound
    /\ displayed' = <<>>
    /\ requests' = <<>>
    /\ call' = NoCall
    /\ loads' = 0
    /\ UNCHANGED <<blob, run, smtp, sessions>>

Next ==
    \/ \E okMovies \in BOOLEAN, okSimilarity \in BOOLEAN :
          LoadModule(okMovies, okSimilarity)
    \/ \E okMovies \in BOOLEAN, okSimilarity \in BOOLEAN :
          LoadApp(okMovies, okSimilarity)
    \/ \E movie \in QueryTitles, failAt \in 0..(SliceTo - SliceFrom),
          failKind \in FailKinds :
          recommend_movies(movie, failAt, failKind)
    \/ \E movie \in QueryTitles, failAt \in 0..(SliceTo - SliceFrom),
          failKind \in FailKinds :
          recommend(movie, failAt, failKind)
    \/ Rerun

Spec == Init /\ [][Next]_vars

\* ------------------------------------------------------------------------
\* Repeated calls: the record of the last call is kept over the reruns, so
\* that a call can be compared with the one before it
\* ------------------------------------------------------------------------

\* Largest catalog of the runs with repeated calls.
RepeatMaxN == 3

InitRepeat == Init /\ Len(blob.movies) <= RepeatMaxN

\* Rerun, keeping the record of the last call.
RerunKeep ==
    /\ pc \in {"done", "crashed"}
    /\ pc' = "start"
    /\ movies' = Unbound
    /\ similarity' = Unbound
    /\ displayed' = <<>>
    /\ requests' = <<>>
    /\ loads' = 0
    /\ UNCHANGED <<blob, call, run, smtp, sessions>>

NextRepeat ==
    \/ \E okMovies \in BOOLEAN, okSimilarity \in BOOLEAN :
          LoadModule(okMovies, okSimilarity)
    \/ \E okMovies \in BOOLEAN, okSimilarity \in BOOLEAN :
          LoadApp(okMovies, okSimilarity)
    \/ \E movie \in QueryTitles, failAt \in 0..(SliceTo - SliceFrom),
          failKind \in FailKinds :
          recommend_movies(movie, failAt, failKind)
    \/ \E movie \in QueryTitles, failAt \in 0..(SliceTo - SliceFrom),
          failKind \in FailKinds :
          recommend(movie, failAt, failKind)
    \/ RerunKeep

SpecRepeat == InitRepeat /\ [][NextRepeat]_vars

\* ------------------------------------------------------------------------
\* The mail functions of model/send_mail.py
\* ------------------------------------------------------------------------

\* E-mail ids are sequences of characters.
Letters == {"a", "b", "c", "o", "m"}

Digits == {"1"}

\* [a-zA-Z0-9._%+-]
LocalChars == Letters \cup Digits \cup {".", "_", "%", "+", "-"}

\* [a-zA-Z0-9.-]
DomainChars == Letters \cup Digits \cup {".", "-"}

\* MovieInfoMail.is_valid_email: re.match of
\* ^[a-zA-Z0-9._%+-]+@[a-zA-Z0-9.-]+\.[a-zA-Z]{2,}$ ; the $ also matches
\* before a newline that ends the string.
is_valid_email(email) ==
    \E at \in 2..Len(email), dot \in 3..Len(email),
       end \in {Len(email), Len(email) - 1} :
        /\ end = Len(email) \/ email[Len(email)] = "\n"
        /\ at + 1 < dot
        /\ dot + 2 <= end
        /\ \A k \in 1..(at - 1) : email[k] \in LocalChars
        /\ email[at] = "@"
        /\ \A k \in (at + 1)..(dot - 1) : email[k] \in DomainChars
        /\ email[dot] = "."
        /\ \A k \in (dot + 1)..end : email[k] \in Letters

\* The e-mail ids typed into the text inputs: a@b.com, a@b.c, ab.com and
\* the empty input.
Emails ==
    {<<"a", "@", "b", ".", "c", "o", "m">>,
     <<"a", "@", "b", ".", "c">>,
     <<"a", "b", ".", "c", "o", "m">>,
     <<>>}

\* What the SMTP session of one send comes to: the mail is accepted, or the
\* connection, the login or the transaction fails.
SmtpOutcomes == {"ok", "connect_error", "login_error", "send_error"}

\* smtplib.SMTP(...), starttls, ehlo, login, sendmail, quit: the steps taken,
\* whether the session is left open, and the mail if it was accepted.
SmtpSession(fn, mail, outcome) ==
    IF outcome = "connect_error"
    THEN [fn |-> fn, kind |-> "raise", error |-> "SMTPException",
          steps |-> <<>>, open |-> 0, mails |-> <<>>]
    ELSE IF outcome = "login_error"
    THEN [fn |-> fn, kind |-> "raise", error |-> "SMTPException",
          steps |-> <<"connect">>, open |-> 1, mails |-> <<>>]
    ELSE IF outcome = "send_error"
    THEN [fn |-> fn, kind |-> "raise", error |-> "SMTPException",
          steps |-> <<"connect", "login">>, open |-> 1, mails |-> <<>>]
    ELSE [fn |-> fn, kind |-> "return", error |-> "",
          steps |-> <<"connect", "login", "sendmail", "quit">>,
          open |-> 0, mails |-> <<mail>>]

\* A send function that raised while it built the message.
SendRaised(fn, error) ==
    [fn |-> fn, kind |-> "raise", error |-> error,
     steps |-> <<>>, open |-> 0, mails |-> <<>>]

\* The titles the body of the recommendations mail names.
MailTitles == 5

\* send_movie_recommendations_mail that opens the SMTP session before it
\* builds the body.
SendMailSessionFirst(receiver, list_of_movies, outcome) ==
    LET fn == "send_movie_recommendations_mail" IN
    IF outcome = "connect_error"
    THEN SmtpSession(fn, <<>>, outcome)
    ELSE IF Len(list_of_movies) < MailTitles
    THEN [fn |-> fn, kind |-> "raise", error |-> "IndexError",
          steps |-> <<"connect", "login">>, open |-> 1, mails |-> <<>>]
    ELSE SmtpSession(fn,
            [kind |-> "recommendations", to |-> receiver,
             subject |-> "Howdy, your recommendations are here!",
             body |-> SubSeq(list_of_movies, 1, MailTitles),
             attachments |-> <<>>],
            outcome)

\* MovieInfoMail.send_movie_recommendations_mail(RECEIVER_EMAIL_ID,
\* list_of_movies): the body reads list_of_movies[0] .. list_of_movies[4],
\* then the SMTP session.
send_movie_recommendations_mail(receiver, list_of_movies, outcome) ==
    LET fn == "send_movie_recommendations_mail" IN
    IF Len(list_of_movies) < MailTitles
    THEN SendRaised(fn, "IndexError")
    ELSE SmtpSession(fn,
            [kind |-> "recommendations", to |-> receiver,
             subject |-> "Howdy, your recommendations are here!",
             body |-> SubSeq(list_of_movies, 1, MailTitles),
             attachments |-> <<>>],
            outcome)

\* The dev team's mail id, the fixed receiver of the bug reports.
TeamMailId == <<"t", "e", "a", "m">>

\* BugReportMail.send_bug_report_mail(..., attachment): the body, then
\* attachment.read() when attachment is true (the page passes the list of
\* the uploaded files, which has no read), then the SMTP session.
send_bug_report_mail(br_full_name, br_email_id, br_bug_in_page, br_bug_type, br_bug_description, attachment, outcome) ==
    LET fn == "send_bug_report_mail" IN
    IF attachment # <<>>
    THEN SendRaised(fn, "AttributeError")
    ELSE SmtpSession(fn,
            [kind |-> "bug_report", to |-> TeamMailId,
             subject |-> "SilverSpace Bug Report",
             body |-> <<br_full_name, br_email_id, br_bug_in_page,
                        br_bug_type, br_bug_description>>,
             attachments |-> <<>>],
            outcome)

\* ------------------------------------------------------------------------
\* The pages of main.py and the button handler of app.py
\* ------------------------------------------------------------------------

\* Largest catalog of the runs of the pages.
PageMaxN == 6

\* The pickles of the runs of the pages: catalogs of 2 and of PageMaxN
\* distinct titles with a matrix of their dimension.
PageBlobs ==
    {[movies |-> Catalog(n, n - 1),
      similarity |-> PatternMatrix(n, MaxScore, 1, 0)] : n \in {2, PageMaxN}}

InitPage == Init /\ blob \in PageBlobs

\* The keys of page_list.
PageNames == {"SilverSpace Home", "About SilverSpace", "Send Bug Reports"}

\* What the OMDB request of the home page comes to: the movie's details, the
\* details without a poster, no such movie, or a failed request.
OmdbResponses == {"ok", "no_poster", "not_found", "request_error"}

\* What the YouTube search comes to: a video, an item without a video id, no
\* item, or a failed request.
TrailerResponses == {"video", "empty_id", "no_items", "request_error"}

\* fetch_movie_trailer: the search, response["items"][0]["id"]["videoId"],
\* then st.video or st.write("Trailer not found").
fetch_movie_trailer(movie_name, response) ==
    IF response = "video"
    THEN [kind |-> "return", shown |-> <<"video">>, error |-> ""]
    ELSE IF response = "empty_id"
    THEN [kind |-> "return", shown |-> <<"Trailer not found">>, error |-> ""]
    ELSE IF response = "no_items"
    THEN [kind |-> "raise", shown |-> <<>>, error |-> "IndexError"]
    ELSE [kind |-> "raise", shown |-> <<>>, error |-> "HttpError"]

\* A button that can be clicked although it is disabled.
ButtonIgnoresDisabled(disabled, click) == click

\* st.button(..., disabled=...): true in the run that a click started; a
\* disabled button cannot be clicked.
Button(disabled, click) == click /\ ~disabled

\* The success alert shown whatever the send function did.
AlertAlways(out, alert) == <<alert>>

\* What follows the call of a send function: the success alert when the call
\* returned; an exception leaves the page before the alert.
AlertAfterSend(out, alert) ==
    IF out.kind = "return" THEN <<alert>> ELSE <<>>

\* The pages are chosen in the sidebar: page_list[selected_page]().
SelectPage(page) ==
    /\ pc = "loaded"
    /\ pc' = page
    /\ run' = [NoRun EXCEPT !.page = page]
    /\ UNCHANGED <<blob, movies, similarity, displayed, requests, call,
                   smtp, loads, sessions>>

\* silverspace_home_page up to the horizontal line before the
\* recommendations: the select box, the OMDB request, the details of the
\* movie, the poster and the trailer columns.
HomeDetails(selected_movie, omdb, trailer) ==
    /\ pc = "SilverSpace Home"
    /\ MatchingIndex(movies.rows, selected_movie) # {}
    /\ run' = [run EXCEPT !.selected = selected_movie]
    /\ IF omdb = "request_error"
       THEN /\ pc' = "crashed"
            /\ UNCHANGED displayed
       ELSE IF omdb = "not_found"
       THEN /\ pc' = "crashed"
            /\ displayed' = Append(displayed, "Rating not found")
       ELSE LET video == fetch_movie_trailer(selected_movie, trailer) IN
            /\ pc' = "home_details"
            /\ displayed' =
                  displayed
                  \o (IF omdb = "no_poster"
                      THEN <<"Poster is unavailable at the moment">>
                      ELSE <<"movie poster">>)
                  \o (IF video.kind = "raise"
                      THEN <<"Video is unavailable at the moment">>
                      ELSE video.shown)
    /\ UNCHANGED <<blob, movies, similarity, requests, call,
                   smtp, loads, sessions>>
\* The home page that goes on without calling recommend_movies.
HomeRecommendSkipped(failAt, failKind) ==
    /\ pc = "home_details"
    /\ pc' = "home_recommended"
    /\ UNCHANGED <<blob, movies, similarity, displayed, requests, call, run,
                   smtp, loads, sessions>>

\* name, posters = recommend_movies(selected_movie), then the expanders
\* with the cast and the box office.
HomeRecommend(failAt, failKind) ==
    /\ pc = "home_details"
    /\ LET out == RecommendMovies(movies, similarity, run.selected,
                                  Responses(failAt, failKind))
       IN  /\ call' = out
           /\ displayed' = displayed \o out.shown
           /\ requests' = requests \o out.sent
           /\ pc' = IF out.kind = "raise" THEN "crashed" ELSE "home_recommended"
    /\ run' = [run EXCEPT !.lookups = @ + 1]
    /\ UNCHANGED <<blob, movies, similarity, smtp, loads, sessions>>

\* The text input and the button "Send the Movie Detail to Email": when the
\* button was clicked, send the mail and show the alert; the run then sleeps
\* with the alert on the page.
HomeMail(movie_info_receiver_email_id, click, outcome) ==
    /\ pc = "home_recommended"
    /\ IF Button(FALSE, click)
       THEN LET out == send_movie_recommendations_mail(
                          movie_info_receiver_email_id, call.titles, outcome)
            IN  /\ run' = [run EXCEPT !.send = out]
                /\ smtp' = [open  |-> smtp.open + out.open,
                            mails |-> smtp.mails \o out.mails]
                /\ displayed' =
                      displayed \o AlertAfterSend(out, "Mail sent succesfully!")
                /\ pc' = IF out.kind = "raise" THEN "crashed" ELSE "home_alert"
       ELSE /\ pc' = "home_mailed"
            /\ UNCHANGED <<run, smtp, displayed>>
    /\ UNCHANGED <<blob, movies, similarity, requests, call, loads, sessions>>

\* The element an alert call put on the page last, emptied: alert.empty().
Emptied(shown) == SubSeq(shown, 1, Len(shown) - 1)

\* time.sleep(3) is over: movie_recommendations_email_sent_alert.empty(),
\* and the run goes on to the posters.
HomeAlertCleared ==
    /\ pc = "home_alert"
    /\ displayed' = Emptied(displayed)
    /\ pc' = "home_mailed"
    /\ UNCHANGED <<blob, movies, similarity, requests, call, run,
                   smtp, loads, sessions>>

\* The images of columns k .. 5: st.image(posters[k - 1], caption=name[k - 1]).
RECURSIVE Columns(_, _, _)
Columns(name, posters, k) ==
    IF k > TopFive \/ k > Len(posters) \/ k > Len(name) THEN <<>>
    ELSE <<[image |-> posters[k], caption |-> name[k]]>>
         \o Columns(name, posters, k + 1)

\* The five columns of "More Flicks Like This": posters[0] .. posters[4]
\* with their captions; a missing one ends the run with an IndexError.
HomePosters ==
    /\ pc = "home_mailed"
    /\ run' = [run EXCEPT !.images = Columns(call.titles, call.posters, 1)]
    /\ pc' = IF Len(call.posters) < TopFive THEN "crashed" ELSE "done"
    /\ UNCHANGED <<blob, movies, similarity, displayed, requests, call,
                   smtp, loads, sessions>>

\* about_silverspace_page: the text and the newsletter button; a click shows
\* the alert and the run sleeps with it on the page.
AboutPage(click) ==
    /\ pc = "About SilverSpace"
    /\ displayed' =
          IF Button(FALSE, click)
          THEN Append(displayed, "You have subscribed to newsletter")
          ELSE displayed
    /\ pc' = IF Button(FALSE, click) THEN "about_alert" ELSE "done"
    /\ UNCHANGED <<blob, movies, similarity, requests, call, run,
                   smtp, loads, sessions>>

\* time.sleep(3) is over: newsletter_subscribed_alert.empty(), the last
\* statement of the page.
AboutAlertCleared ==
    /\ pc = "about_alert"
    /\ displayed' = Emptied(displayed)
    /\ pc' = "done"
    /\ UNCHANGED <<blob, movies, similarity, requests, call, run,
                   smtp, loads, sessions>>

\* The first and the last option of bug_types.
BugTypes == {"General Bug/Error", "Privacy/Authorization"}

\* The lists of files the uploader may return.
Uploads == {<<>>, <<"shot.png">>, <<"shot.png", "log.txt">>}

\* send_bug_report_page: the form, the checkbox, the button (enabled by the
\* checkbox) and, when it was clicked, the mail and the alert; the run then
\* sleeps with the alert on the page.
BugReportPage(br_email_id, br_bug_in_page, br_bug_type, br_uploaded_files, bug_report_terms_and_conditions, click, outcome) ==
    /\ pc = "Send Bug Reports"
    /\ IF Button(~bug_report_terms_and_conditions, click)
       THEN LET out == send_bug_report_mail(
                          "Ann", br_email_id, br_bug_in_page, br_bug_type,
                          "it crashed", br_uploaded_files, outcome)
            IN  /\ run' = [run EXCEPT
                              !.checkbox = bug_report_terms_and_conditions,
                              !.uploads = br_uploaded_files,
                              !.send = out]
                /\ smtp' = [open  |-> smtp.open + out.open,
                            mails |-> smtp.mails \o out.mails]
                /\ displayed' =
                      displayed
                      \o AlertAfterSend(out, "Your bug report has been sent!")
                /\ pc' = IF out.kind = "raise" THEN "crashed" ELSE "bug_alert"
       ELSE /\ run' = [run EXCEPT
                          !.checkbox = bug_report_terms_and_conditions,
                          !.uploads = br_uploaded_files]
            /\ pc' = "done"
            /\ UNCHANGED <<smtp, displayed>>
    /\ UNCHANGED <<blob, movies, similarity, requests, call, loads, sessions>>

\* time.sleep(3) is over: bug_report_sent_alert.empty(); the sidebar that
\* follows shows no message.
BugAlertCleared ==
    /\ pc = "bug_alert"
    /\ displayed' = Emptied(displayed)
    /\ pc' = "done"
    /\ UNCHANGED <<blob, movies, similarity, requests, call, run,
                   smtp, loads, sessions>>

\* app.py, from the select box on: when the button "Recommend" was clicked,
\* recommend(selected_movie_name) and the five columns name[k], posters[k].
RecommendButton(selected_movie_name, click, failAt, failKind) ==
    /\ pc = "loaded_app"
    /\ MatchingIndex(movies.rows, selected_movie_name) # {}
    /\ IF Button(FALSE, click)
       THEN LET out == Recommend(movies, similarity, selected_movie_name,
                                 Responses(failAt, failKind))
            IN  /\ call' = out
                /\ requests' = requests \o out.sent
                /\ run' = [run EXCEPT
                              !.page = "app", !.selected = selected_movie_name,
                              !.lookups = @ + 1,
                              !.images = Columns(out.titles, out.posters, 1)]
                /\ pc' = IF out.kind = "raise" \/ Len(out.titles) < TopFive
                         THEN "crashed" ELSE "done"
       ELSE /\ run' = [run EXCEPT
                          !.page = "app", !.selected = selected_movie_name]
            /\ pc' = "done"
            /\ UNCHANGED <<call, requests>>
    /\ UNCHANGED <<blob, movies, similarity, displayed, smtp, loads, sessions>>

\* The states in which a run sleeps with its alert on the page.
Sleeping == {"home_alert", "about_alert", "bug_alert"}

\* The next user interaction runs the script again, from the top, whether
\* the last run is over or sleeps before it clears its alert; the loads made
\* so far stay on record.
NextInteraction ==
    /\ pc \in {"done", "crashed"} \cup Sleeping
    /\ pc' = "start"
    /\ movies' = Unbound
    /\ similarity' = Unbound
    /\ displayed' = <<>>
    /\ requests' = <<>>
    /\ call' = NoCall
    /\ run' = NoRun
    /\ smtp' = NoMail
    /\ UNCHANGED <<blob, loads, sessions>>

NextPage ==
    \/ \E okMovies \in BOOLEAN, okSimilarity \in BOOLEAN :
          LoadModule(okMovies, okSimilarity)
    \/ \E okMovies \in BOOLEAN, okSimilarity \in BOOLEAN :
          LoadApp(okMovies, okSimilarity)
    \/ \E page \in PageNames : SelectPage(page)
    \/ \E selected_movie \in QueryTitles, omdb \in OmdbResponses,
          trailer \in TrailerResponses :
          HomeDetails(selected_movie, omdb, trailer)
    \/ \E failAt \in 0..(SliceTo - SliceFrom), failKind \in FailKinds :
          HomeRecommend(failAt, failKind)
    \/ \E email \in Emails, click \in BOOLEAN, outcome \in SmtpOutcomes :
          HomeMail(email, click, outcome)
    \/ HomeAlertCleared
    \/ HomePosters
    \/ \E click \in BOOLEAN : AboutPage(click)
    \/ AboutAlertCleared
    \/ \E email \in Emails, page \in PageNames, type \in BugTypes,
          files \in Uploads, checked \in BOOLEAN, click \in BOOLEAN,
          outcome \in SmtpOutcomes :
          BugReportPage(email, page, type, files, checked, click, outcome)
    \/ BugAlertCleared
    \/ \E movie \in QueryTitles, click \in BOOLEAN,
          failAt \in 0..(SliceTo - SliceFrom), failKind \in FailKinds :
          RecommendButton(movie, click, failAt, failKind)
    \/ NextInteraction

SpecPage == InitPage /\ [][NextPage]_vars

\* ------------------------------------------------------------------------
\* Lookups of several users at the same time, on the loaded catalog and
\* matrix: recommend_movies statement by statement, each call with its own
\* locals
\* ------------------------------------------------------------------------

\* Largest catalog of the runs with concurrent lookups.
ConcMaxN == 3

ConcBlobs ==
    {[movies |-> Catalog(n, n - 1),
      similarity |-> PatternMatrix(n, self, 1, 0)] :
        n \in 2..ConcMaxN, self \in {0, MaxScore}}

InitConcurrent == Init /\ blob \in ConcBlobs

\* movie_index kept in one place for all the calls (a module global).
IndexOwnerGlobal(u) == "u1"

\* movie_index is a local of recommend_movies: the call of user u reads and
\* writes its own.
IndexOwner(u) == u

\* User u's page calls recommend_movies(movie).
BeginLookup(u, movie) ==
    /\ pc = "loaded"
    /\ sessions[u].pc = "idle"
    /\ sessions' = [sessions EXCEPT ![u].pc = "index", ![u].movie = movie]
    /\ UNCHANGED <<blob, movies, similarity, pc, displayed, requests, call,
                   run, smtp, loads>>

\* try: movie_index = movies[movies["title"] == movie].index[0]
\* except: st.error("Could not find movie")
ResolveIndex(u) ==
    /\ sessions[u].pc = "index"
    /\ LET found == MatchingIndex(movies.rows, sessions[u].movie) IN
       sessions' =
          IF found = {}
          THEN [sessions EXCEPT
                   ![u].pc = "row",
                   ![u].shown = Append(@, "Could not find movie")]
          ELSE [sessions EXCEPT
                   ![u].pc = "row",
                   ![IndexOwner(u)].found = TRUE,
                   ![IndexOwner(u)].movie_index = FirstIndex(found)]
    /\ UNCHANGED <<blob, movies, similarity, pc, displayed, requests, call,
                   run, smtp, loads>>

\* distances = similarity[movie_index]; movies_list = sorted(...)[1:6]
RankRow(u) ==
    /\ sessions[u].pc = "row"
    /\ LET own == sessions[IndexOwner(u)] IN
       sessions' =
          IF ~similarity.bound
          THEN [sessions EXCEPT ![u].pc = "raised", ![u].error = "NameError"]
          ELSE IF ~own.found
          THEN [sessions EXCEPT ![u].pc = "raised",
                                ![u].error = "UnboundLocalError"]
          ELSE IF own.movie_index >= Len(similarity.rows)
          THEN [sessions EXCEPT ![u].pc = "raised", ![u].error = "IndexError"]
          ELSE [sessions EXCEPT
                   ![u].pc = "loop",
                   ![u].movies_list =
                       MoviesList(similarity.rows[own.movie_index + 1])]
    /\ UNCHANGED <<blob, movies, similarity, pc, displayed, requests, call,
                   run, smtp, loads>>

\* The loop over movies_list up to the poster request: movie_id and the
\* title are read, the title is appended, and fetch_movie_poster sends its
\* request; the call then waits for the answer while other calls run.
SendPosterRequest(u) ==
    /\ sessions[u].pc = "loop"
    /\ Len(sessions[u].titles) < Len(sessions[u].movies_list)
    /\ LET i == sessions[u].movies_list[Len(sessions[u].titles) + 1] IN
       IF i[1] >= Len(movies.rows)
       THEN sessions' =
               [sessions EXCEPT
                   ![u].pc = "returned",
                   ![u].shown = Append(@, "Could not fetch movie poster")]
       ELSE LET item == movies.rows[i[1] + 1] IN
            sessions' =
               [sessions EXCEPT
                   ![u].titles = Append(@, item.title),
                   ![u].sent = Append(@, item.movie_id),
                   ![u].pc = "fetch"]
    /\ UNCHANGED <<blob, movies, similarity, pc, displayed, requests, call,
                   run, smtp, loads>>

\* The request of user u's call comes to response: the poster is appended
\* and the loop goes on, or the except clause shows its message and the
\* function returns what it has.
ReceivePoster(u, response) ==
    /\ sessions[u].pc = "fetch"
    /\ LET movie_id == sessions[u].sent[Len(sessions[u].sent)]
           poster   == fetch_movie_poster(movie_id, response)
       IN  sessions' =
              [sessions EXCEPT
                  ![u].met = Append(@, response),
                  ![u].posters =
                      IF poster.kind = "raise" THEN @
                      ELSE Append(@, poster.value),
                  ![u].shown =
                      IF poster.kind = "raise"
                      THEN Append(@, "Could not fetch movie poster")
                      ELSE @,
                  ![u].pc =
                      IF poster.kind = "raise" THEN "returned" ELSE "loop"]
    /\ UNCHANGED <<blob, movies, similarity, pc, displayed, requests, call,
                   run, smtp, loads>>

\* return recommended_movies_titles, recommended_movies_poster
ReturnLists(u) ==
    /\ sessions[u].pc = "loop"
    /\ Len(sessions[u].titles) = Len(sessions[u].movies_list)
    /\ sessions' = [sessions EXCEPT ![u].pc = "returned"]
    /\ UNCHANGED <<blob, movies, similarity, pc, displayed, requests, call,
                   run, smtp, loads>>

NextConcurrent ==
    \/ \E okMovies \in BOOLEAN, okSimilarity \in BOOLEAN :
          LoadModule(okMovies, okSimilarity)
    \/ \E u \in Users, movie \in QueryTitles : BeginLookup(u, movie)
    \/ \E u \in Users : ResolveIndex(u)
    \/ \E u \in Users : RankRow(u)
    \/ \E u \in Users : SendPosterRequest(u)
    \/ \E u \in Users, response \in PosterResponses : ReceivePoster(u, response)
    \/ \E u \in Users : ReturnLists(u)

SpecConcurrent == InitConcurrent /\ [][NextConcurrent]_vars

\* ------------------------------------------------------------------------
\* Vocabulary of the claims (on the state after a call)
\* ------------------------------------------------------------------------

Called == call.fn # "none"

CatalogSize == Len(movies.rows)

\* Some catalog item carries the title the call was made with.
TitlePresent == \E k \in 1..Len(movies.rows) : movies.rows[k].title = call.movie

\* The loaded matrix has the catalog's dimension.
Aligned ==
    /\ movies.bound
    /\ similarity.bound
    /\ Len(similarity.rows) = Len(movies.rows)

\* The similarity row of the item the call resolved its title to.
QueryRow == similarity.rows[call.movie_index + 1]

\* The Python index of the k-th returned item.
ReturnedIndex(k) == call.movies_list[k][1]

TopK == SliceTo - SliceFrom

IsPrefix(s, t) == Len(s) <= Len(t) /\ s = SubSeq(t, 1, Len(s))

\* ------------------------------------------------------------------------
\* C1
\* ------------------------------------------------------------------------

\* C1: for every title present in a catalog of N items (with a matrix of
\* dimension N), recommend_movies returns exactly min(5, N - 1) items.
C1_ReturnsMinFiveItems ==
    (call.fn = "recommend_movies" /\ Aligned /\ TitlePresent) =>
        /\ call.kind = "return"
        /\ Len(call.titles) = Min(TopK, CatalogSize - 1)

\* ------------------------------------------------------------------------
\* C2
\* ------------------------------------------------------------------------

\* The diagonal entry of the query row is a maximum of the row.
SelfIsRowMax ==
    \A c \in 1..Len(QueryRow) : QueryRow[c] <= QueryRow[call.movie_index + 1]

\* C2: whenever similarity[i][i] is the maximum of row i, none of the items
\* returned for item i is item i itself.
C2_NeverReturnsQueryItem ==
    (Called /\ Aligned /\ TitlePresent /\ call.kind = "return" /\ SelfIsRowMax) =>
        \A k \in 1..Len(call.titles) : ReturnedIndex(k) # call.movie_index

\* ------------------------------------------------------------------------
\* C3
\* ------------------------------------------------------------------------

\* The k-th returned title is the title of the k-th entry of movies_list.
ReturnedAreRanked ==
    /\ Len(call.titles) <= Len(call.movies_list)
    /\ \A k \in 1..Len(call.titles) :
          /\ ReturnedIndex(k) < Len(movies.rows)
          /\ call.titles[k] = movies.rows[ReturnedIndex(k) + 1].title

\* C3: the returned items are in descending order of their similarity to
\* the query item: for A before B, similarity[T][A] >= similarity[T][B].
C3_DescendingOrder ==
    (Called /\ call.kind = "return") =>
        /\ ReturnedAreRanked
        /\ \A a, b \in 1..Len(call.titles) :
              a < b => QueryRow[ReturnedIndex(a) + 1] >= QueryRow[ReturnedIndex(b) + 1]

\* A call on a catalog of 7 returned 5 items of more than one score.
C3_Witness ==
    /\ call.fn = "recommend_movies"
    /\ call.kind = "return"
    /\ CatalogSize = 7
    /\ Len(call.titles) = 5
    /\ QueryRow[ReturnedIndex(1) + 1] > QueryRow[ReturnedIndex(5) + 1]

\* ------------------------------------------------------------------------
\* C4
\* ------------------------------------------------------------------------

\* The run is on the scenario of the specification: catalog A..F, the row
\* of A is [1.0, 0.9, 0.9, 0.5, 0.2, 0.1], and the call is for "A".
OnScenario ==
    /\ Called
    /\ blob.movies = Catalog(6, 5)
    /\ blob.similarity = ScenarioMatrix
    /\ call.movie = "A"

\* C4: returned items of equal similarity to the query item are in catalog
\* index order (lower index first); on the scenario the items returned are
\* B, C, D, E, F in that order (as far as the list was returned).
C4_TiesInIndexOrder ==
    /\ (Called /\ call.kind = "return") =>
          \A a, b \in 1..Len(call.titles) :
             (a < b /\ QueryRow[ReturnedIndex(a) + 1] = QueryRow[ReturnedIndex(b) + 1])
                => ReturnedIndex(a) < ReturnedIndex(b)
    /\ (OnScenario /\ call.kind = "return") =>
          /\ IsPrefix(call.titles, <<"B", "C", "D", "E", "F">>)
          /\ Len(call.posters) = TopK => call.titles = <<"B", "C", "D", "E", "F">>

\* The scenario's call returned B, C, D, E, F, with B and C tied.
C4_Witness ==
    /\ OnScenario
    /\ call.fn = "recommend_movies"
    /\ call.titles = <<"B", "C", "D", "E", "F">>
    /\ QueryRow[ReturnedIndex(1) + 1] = QueryRow[ReturnedIndex(2) + 1]

\* ------------------------------------------------------------------------
\* C5
\* ------------------------------------------------------------------------

\* C5: a lookup with a title that matches no catalog item fails with a
\* NotFoundError raised to the caller and has no side effect: nothing is
\* displayed, no request is sent and catalog and matrix stay as loaded.
C5_NotFoundWithoutSideEffects ==
    (Called /\ movies.bound /\ ~TitlePresent) =>
        /\ call.kind = "raise"
        /\ call.error = "NotFoundError"
        /\ call.shown = <<>>
        /\ displayed = <<>>
        /\ call.sent = <<>>
        /\ movies = Bound(blob.movies)
        /\ similarity \in {Bound(blob.similarity), Unbound}

\* ------------------------------------------------------------------------
\* C6
\* ------------------------------------------------------------------------

\* This step is a call of recommend_movies with the title of the last call
\* of recommend_movies, on the same loaded catalog and matrix.
SameCallAgain ==
    /\ call.fn = "recommend_movies"
    /\ call.error # "NameError"
    /\ pc = "loaded"
    /\ Aligned
    /\ pc' \in {"done", "crashed"}
    /\ call'.fn = "recommend_movies"
    /\ call'.movie = call.movie

\* C6: two calls with the same title, catalog and matrix return the
\* identical ordered output.
C6_SameCallSameOutput ==
    [][SameCallAgain =>
          /\ call'.kind = call.kind
          /\ call'.titles = call.titles]_vars

\* ------------------------------------------------------------------------
\* C7
\* ------------------------------------------------------------------------

\* C7: the lookup is a pure function: a call of recommend_movies sends no
\* request, shows nothing and leaves catalog and matrix as loaded, and it
\* fails only with the NotFoundError of a title that no item carries.
C7_PureLookup ==
    (call.fn = "recommend_movies" /\ Aligned) =>
        /\ call.sent = <<>>
        /\ requests = <<>>
        /\ call.shown = <<>>
        /\ movies = Bound(blob.movies)
        /\ similarity = Bound(blob.similarity)
        /\ call.kind = "raise" =>
              /\ ~TitlePresent
              /\ call.error = "NotFoundError"

\* ------------------------------------------------------------------------
\* C8
\* ------------------------------------------------------------------------

\* C8: whatever the poster requests come to, the call returns, and returns
\* the titles of the whole ranked list.
C8_PosterFailureKeepsTitles ==
    (Called /\ Aligned /\ TitlePresent) =>
        /\ call.kind = "return"
        /\ call.titles =
              [k \in 1..Len(call.movies_list) |->
                  movies.rows[call.movies_list[k][1] + 1].title]

\* ------------------------------------------------------------------------
\* C9
\* ------------------------------------------------------------------------

\* The Python indices of the catalog items that carry the call's title.
Carriers == {i \in 0..(Len(movies.rows) - 1) : movies.rows[i + 1].title = call.movie}

\* The lowest catalog position that carries the call's title.
LowestCarrier == CHOOSE i \in Carriers : \A j \in Carriers : i <= j

\* C9: the call resolves its title to the first item that carries it, and
\* ranks the entries of that item's similarity row.
C9_FirstMatch ==
    (Called /\ movies.bound /\ TitlePresent) =>
        /\ call.movie_index = LowestCarrier
        /\ call.kind = "return" =>
              /\ Len(call.movies_list) =
                    Min(TopK, Len(similarity.rows[LowestCarrier + 1]) - 1)
              /\ \A k \in 1..Len(call.movies_list) :
                    call.movies_list[k][2] =
                       similarity.rows[LowestCarrier + 1][call.movies_list[k][1] + 1]

\* A call for a title that two items carry, the first of them not item 0,
\* their rows different, returned a list.
C9_Witness ==
    /\ call.fn = "recommend_movies"
    /\ call.kind = "return"
    /\ Cardinality(Carriers) = 2
    /\ LowestCarrier > 0
    /\ \E i \in Carriers : similarity.rows[i + 1] # similarity.rows[LowestCarrier + 1]
    /\ Len(call.titles) = TopK

\* ------------------------------------------------------------------------
\* C10
\* ------------------------------------------------------------------------

\* C10: a matrix whose dimension differs from the catalog's length is a
\* fatal error at load, so no lookup computes a result from such a matrix.
C10_NoLookupOnMismatch ==
    (Called /\ call.kind = "return") =>
        Len(similarity.rows) = Len(movies.rows)

\* ------------------------------------------------------------------------
\* Vocabulary of the claims on the pages
\* ------------------------------------------------------------------------

\* The page shows the message m.
InDisplayed(m) == \E k \in 1..Len(displayed) : displayed[k] = m

\* The run is past the call of recommend_movies on the home page.
PastLookup ==
    /\ run.page = "SilverSpace Home"
    /\ pc \in {"home_recommended", "home_alert", "home_mailed", "done"}

\* ------------------------------------------------------------------------
\* C11
\* ------------------------------------------------------------------------

\* C11: the catalog and the similarity matrix are loaded once and only read
\* afterwards: whatever the users do, the pickles are loaded at most once
\* and the loaded data are the data of the pickles.
C11_LoadedOnceReadOnly ==
    /\ loads <= 1
    /\ movies.bound => movies.rows = blob.movies
    /\ similarity.bound => similarity.rows = blob.similarity

\* ------------------------------------------------------------------------
\* C12
\* ------------------------------------------------------------------------

\* C12 as stated: each user interaction triggers exactly one lookup call:
\* every run of the script that comes to its end has made one lookup.
C12_OneLookupPerInteraction ==
    pc = "done" => run.lookups = 1

\* C12 as amended: a run of the script makes at most one lookup call, none
\* on the pages without recommendations, and exactly one on a home-page run
\* that reaches the recommendations; that call has returned, for the movie
\* of the select box, before the mail action and before the recommended
\* posters are displayed, and the mail and the images carry its result.
C12_OneLookupBeforeMailAndPosters ==
    /\ run.lookups <= 1
    /\ run.page \in {"About SilverSpace", "Send Bug Reports"} => run.lookups = 0
    /\ (PastLookup
        \/ run.send.fn = "send_movie_recommendations_mail"
        \/ run.images # <<>>) =>
          /\ run.lookups = 1
          /\ call.kind = "return"
          /\ call.movie = run.selected
    /\ \A k \in 1..Len(smtp.mails) :
          smtp.mails[k].kind = "recommendations" =>
             smtp.mails[k].body = call.titles
    /\ \A k \in 1..Len(run.images) :
          /\ run.images[k].caption = call.titles[k]
          /\ run.images[k].image = call.posters[k]

\* A home-page run made its lookup, sent the mail and showed five posters.
C12_Witness ==
    /\ run.page = "SilverSpace Home"
    /\ pc = "done"
    /\ run.lookups = 1
    /\ run.send.kind = "return"
    /\ Len(run.images) = TopFive

\* ------------------------------------------------------------------------
\* C14
\* ------------------------------------------------------------------------

\* C14: the poster fetcher returns a url (the poster's or the placeholder's)
\* for every request and never raises: a lookup on a matching catalog and
\* matrix has a poster for each request it sent, shows no poster error and
\* raises none of the fetcher's exceptions.
C14_PosterFetcherNeverRaises ==
    (Called /\ Aligned) =>
        /\ Len(call.posters) = Len(call.sent)
        /\ call.error \notin {"KeyError", "RequestException"}
        /\ \A k \in 1..Len(call.shown) :
              call.shown[k] # "Could not fetch movie poster"

\* ------------------------------------------------------------------------
\* C15
\* ------------------------------------------------------------------------

\* The run is past the trailer column of the home page.
PastTrailer ==
    /\ run.page = "SilverSpace Home"
    /\ pc \in {"home_details", "home_recommended", "home_alert",
              "home_mailed", "done"}

\* C15: fetch_movie_trailer returns the video or a message that the trailer
\* was not found and never raises, so the video column shows what
\* fetch_movie_trailer displayed, never the warning of the page's handler.
C15_TrailerFetcherNeverRaises ==
    PastTrailer =>
        /\ InDisplayed("video") \/ InDisplayed("Trailer not found")
        /\ ~InDisplayed("Video is unavailable at the moment")

\* ------------------------------------------------------------------------
\* C16
\* ------------------------------------------------------------------------

\* C16: send_bug_report_mail is called, and a bug report is mailed, only in
\* a run in which the terms-and-conditions checkbox is checked.
C16_BugReportOnlyWithConsent ==
    /\ run.send.fn = "send_bug_report_mail" => run.checkbox
    /\ \A k \in 1..Len(smtp.mails) :
          smtp.mails[k].kind = "bug_report" => run.checkbox

\* A bug report was mailed in a run with the checkbox checked.
C16_Witness ==
    /\ run.page = "Send Bug Reports"
    /\ run.checkbox
    /\ run.send.fn = "send_bug_report_mail"
    /\ Len(smtp.mails) = 1

\* ------------------------------------------------------------------------
\* C17
\* ------------------------------------------------------------------------

\* C17: a bug report with an invalid e-mail id is not sent; the page warns
\* of the invalid address instead: every bug report mailed carries an
\* e-mail id that is_valid_email accepts.
C17_InvalidEmailNotSent ==
    \A k \in 1..Len(smtp.mails) :
        smtp.mails[k].kind = "bug_report" =>
            is_valid_email(smtp.mails[k].body[2])

\* ------------------------------------------------------------------------
\* C18
\* ------------------------------------------------------------------------

\* C18: a bug report is mailed with the uploaded files as its attachments
\* (with none, as text only): a call of send_bug_report_mail fails only when
\* the SMTP session fails, and the mail it sends carries the uploaded files.
C18_UploadsAreAttached ==
    run.send.fn = "send_bug_report_mail" =>
        /\ run.send.error \in {"", "SMTPException"}
        /\ \A k \in 1..Len(run.send.mails) :
              run.send.mails[k].attachments = run.uploads

\* ------------------------------------------------------------------------
\* C19
\* ------------------------------------------------------------------------

\* The send function fn returned in this run: its SMTP session ran to quit
\* and its mail was accepted.
SendReturned(fn, kind) ==
    /\ run.send.fn = fn
    /\ run.send.kind = "return"
    /\ run.send.steps = <<"connect", "login", "sendmail", "quit">>
    /\ Len(smtp.mails) = 1
    /\ smtp.mails[1].kind = kind
    /\ smtp.open = 0

RanksBefore(i, j) ==
    \/ QueryRow[i + 1] > QueryRow[j + 1]
    \/ QueryRow[i + 1] = QueryRow[j + 1] /\ i < j

\* The number of entries of the query row that rank before entry i: the
\* position of entry i in the sorted row.
Position(i) ==
    Cardinality({j \in 0..(Len(QueryRow) - 1) : RanksBefore(j, i)})

\* No other item has a strictly greater score than the query item and no
\* item with a smaller index has an equal score.
SelfRanksFirst ==
    \A j \in 0..(Len(QueryRow) - 1) :
        j # call.movie_index =>
            /\ QueryRow[j + 1] <= QueryRow[call.movie_index + 1]
            /\ j < call.movie_index =>
                  QueryRow[j + 1] < QueryRow[call.movie_index + 1]

\* The query item is among the ranked entries of the call.
SelfInList ==
    \E k \in 1..Len(call.movies_list) : ReturnedIndex(k) = call.movie_index

\* The ranked list of the call is positions 1 .. 5 of the sorted query row,
\* and the titles returned are the titles of its first entries.
PositionsOneToFive ==
    /\ Len(call.movies_list) = Min(TopK, Len(QueryRow) - 1)
    /\ \A k \in 1..Len(call.movies_list) :
          /\ ReturnedIndex(k) \in 0..(Len(QueryRow) - 1)
          /\ Position(ReturnedIndex(k)) = k
          /\ call.movies_list[k][2] = QueryRow[ReturnedIndex(k) + 1]
    /\ ReturnedAreRanked

\* C20 as stated: the result is positions 1 .. 5 of the sorted row; the
\* query item's own entry is the one dropped if and only if it ranks first;
\* otherwise another entry is dropped and the query item is in the result.
C20_SelfInResultUnlessFirst ==
    (Called /\ Aligned /\ call.kind = "return") =>
        /\ PositionsOneToFive
        /\ SelfRanksFirst => ~SelfInList
        /\ ~SelfRanksFirst => SelfInList

\* C20 as amended: the result is positions 1 .. 5 of the sorted row; the
\* query item's own entry is the one dropped if and only if it ranks first;
\* otherwise another entry is dropped, and the query item is in the ranked
\* list exactly when at most five entries rank before it.
C20_PositionalSelfExclusion ==
    (Called /\ call.kind = "return") =>
        /\ PositionsOneToFive
        /\ SelfRanksFirst => ~SelfInList
        /\ ~SelfRanksFirst =>
              /\ \E k \in 1..Len(call.movies_list) :
                    Position(ReturnedIndex(k)) = 1
              /\ SelfInList <=> Position(call.movie_index) <= TopK

\* A call whose query item does not rank first returned the query item.
C20_Witness ==
    /\ call.fn = "recommend_movies"
    /\ call.kind = "return"
    /\ CatalogSize = 7
    /\ ~SelfRanksFirst
    /\ SelfInList
    /\ \E k \in 1..Len(call.titles) : call.titles[k] = call.movie

\* ------------------------------------------------------------------------
\* C13
\* ------------------------------------------------------------------------

\* The poster responses a lookup met, followed by successful ones.
ResponsesMet(met) ==
    [k \in 1..TopK |-> IF k <= Len(met) THEN met[k] ELSE "ok"]

\* The lookup of user u has ended as the call of recommend_movies with the
\* same title and the same poster responses ends when it runs alone.
AsWhenAlone(u) ==
    LET mine  == sessions[u]
        alone == RecommendMovies(movies, similarity, mine.movie,
                                 ResponsesMet(mine.met))
    IN  /\ (mine.pc = "raised") = (alone.kind = "raise")
        /\ mine.error = alone.error
        /\ mine.titles = alone.titles
        /\ mine.posters = alone.posters
        /\ mine.shown = alone.shown
        /\ mine.sent = alone.sent
        /\ mine.pc = "returned" => mine.movies_list = alone.movies_list

\* C13: under every interleaving of the lookups of several users, each
\* lookup ends as it ends when it runs alone, and the shared catalog and
\* matrix are never written.
C13_ConcurrentLookupsAsAlone ==
    /\ \A u \in Users :
          sessions[u].pc \in {"returned", "raised"} => AsWhenAlone(u)
    /\ movies \in {Unbound, Bound(blob.movies)}
    /\ similarity \in {Unbound, Bound(blob.similarity)}

\* A lookup has returned its titles while another lookup, for another
\* title, waits for the answer to its first poster request.
C13_Witness ==
    /\ sessions["u1"].pc = "returned"
    /\ Len(sessions["u1"].titles) = 2
    /\ sessions["u2"].pc = "fetch"
    /\ Len(sessions["u2"].titles) = 1
    /\ sessions["u2"].posters = <<>>
    /\ sessions["u2"].movie # sessions["u1"].movie
    /\ sessions["u2"].movies_list # sessions["u1"].movies_list

\* ------------------------------------------------------------------------
\* C21
\* ------------------------------------------------------------------------

\* The call showed the message of its loop's handler: a poster fetch failed
\* (on a catalog and matrix of one dimension nothing else ends the loop).
PosterFetchFailed ==
    \E k \in 1..Len(call.shown) : call.shown[k] = "Could not fetch movie poster"

\* C21: whenever recommend_movies returns, len(posters) <= len(titles) <=
\* len(posters) + 1 and posters[k] is the poster fetched for titles[k]; on a
\* catalog of N items with its N x N matrix the two lists have the equal
\* length min(5, N - 1) exactly when no poster fetch failed; the failing
\* fetch is the last request, and its title the last one added.
C21_TitlesAndPostersInStep ==
    (call.fn = "recommend_movies" /\ call.kind = "return") =>
        /\ Len(call.posters) <= Len(call.titles)
        /\ Len(call.titles) <= Len(call.posters) + 1
        /\ Len(call.titles) <= Len(call.movies_list)
        /\ \A k \in 1..Len(call.titles) :
              /\ ReturnedIndex(k) < Len(movies.rows)
              /\ call.titles[k] = movies.rows[ReturnedIndex(k) + 1].title
              /\ call.sent[k] = movies.rows[ReturnedIndex(k) + 1].movie_id
        /\ \A k \in 1..Len(call.posters) :
              call.posters[k] =
                 <<"https://image.tmdb.org/t/p/w500/",
                   movies.rows[ReturnedIndex(k) + 1].movie_id>>
        /\ Aligned =>
              /\ (~PosterFetchFailed) <=>
                    /\ Len(call.titles) = Len(call.posters)
                    /\ Len(call.titles) = Min(TopK, CatalogSize - 1)
              /\ PosterFetchFailed =>
                    /\ Len(call.titles) = Len(call.posters) + 1
                    /\ Len(call.sent) = Len(call.titles)

\* A call on a catalog of 7 whose third poster fetch failed returned three
\* titles and two posters.
C21_Witness ==
    /\ call.fn = "recommend_movies"
    /\ call.kind = "return"
    /\ Aligned
    /\ CatalogSize = 7
    /\ PosterFetchFailed
    /\ Len(call.titles) = 3
    /\ Len(call.posters) = 2

\* ------------------------------------------------------------------------
\* C22
\* ------------------------------------------------------------------------

\* C22: recommend_movies never returns a result for a title that no catalog
\* item carries: it displays "Could not find movie", then reads the
\* similarity row with movie_index unbound and raises, so it ranks no row,
\* returns no list and sends no request.
C22_AbsentTitleNeverReturns ==
    (call.fn = "recommend_movies" /\ movies.bound /\ ~TitlePresent) =>
        /\ call.kind = "raise"
        /\ call.error \in {"UnboundLocalError", "NameError"}
        /\ similarity.bound => call.error = "UnboundLocalError"
        /\ call.shown = <<"Could not find movie">>
        /\ call.movie_index = -1
        /\ call.movies_list = <<>>
        /\ call.titles = <<>>
        /\ call.posters = <<>>
        /\ call.sent = <<>>
        /\ pc = "crashed"

\* recommend_movies was called with an absent title on a loaded catalog of 7
\* and its matrix, and the run ended with the exception.
C22_Witness ==
    /\ call.fn = "recommend_movies"
    /\ Aligned
    /\ CatalogSize = 7
    /\ ~TitlePresent
    /\ call.kind = "raise"
    /\ pc = "crashed"

\* ------------------------------------------------------------------------
\* C23
\* ------------------------------------------------------------------------

\* The page called send_movie_recommendations_mail with fewer than five
\* titles.
MailedFewerThanFive ==
    /\ run.send.fn = "send_movie_recommendations_mail"
    /\ Len(call.titles) < MailTitles

\* C23: send_movie_recommendations_mail called with fewer than 5 titles
\* raises while it builds the body, before any SMTP connection is opened:
\* no mail is sent, no session is left open, and the run ends there without
\* the success alert.
C23_ShortListRaisesBeforeSmtp ==
    MailedFewerThanFive =>
        /\ run.send.kind = "raise"
        /\ run.send.error = "IndexError"
        /\ run.send.steps = <<>>
        /\ run.send.open = 0
        /\ run.send.mails = <<>>
        /\ smtp = NoMail
        /\ ~InDisplayed("Mail sent succesfully!")
        /\ pc = "crashed"

\* The mail button was clicked after the third poster fetch of the lookup
\* had failed, and the send of the three titles raised.
C23_Witness ==
    /\ MailedFewerThanFive
    /\ CatalogSize = PageMaxN
    /\ PosterFetchFailed
    /\ Len(call.titles) = 3
    /\ run.send.error = "IndexError"

====
